---- MODULE Spec2Model ----
(***************************************************************************)
(* Verification model of replimod: the REST client-side model class.       *)
(*                                                                         *)
(* src/index.js holds two generations of the library:                      *)
(*   - the builder variant (ModelBuilder + Model, lines 1-284), whose      *)
(*     helper camelCaseToHyphen lives in src/unnamed/part_001;             *)
(*   - the v2 variant (Model with static configuration, lines 285-478),    *)
(*     whose helpers live in src/util.js.                                  *)
(*                                                                         *)
(* Strings are sequences of one-character strings.                         *)
(***************************************************************************)
EXTENDS Integers, Sequences, FiniteSets, TLC

\* ------------------------------------------------------------------------
\* Bounds of the model
\* ------------------------------------------------------------------------
MaxInputLen == 3    \* longest string handed to the case converter
MaxTypes == 1       \* entity types built from the one builder
MaxListeners == 1   \* request listeners registered on the builder
MaxInner == 1       \* inner resources registered on the builder
MaxInstances == 1   \* model instances application code holds on to
MaxPending == 1     \* transport calls in flight
MaxListLen == 2     \* longest array a list() response carries

\* Longest string the engine allocates before String.prototype.replace throws
\* RangeError("Invalid string length"), scaled down.  A run of the converter
\* that terminates inserts at most one hyphen per character of its input, so
\* only runs that would never leave the loop reach this length.
MaxStrLen == 2 * MaxInputLen + 1

\* ------------------------------------------------------------------------
\* Characters and JavaScript's String.prototype helpers
\* ------------------------------------------------------------------------
Chars == {"a", "b", "A", "B", "-", "1", "_", "$"}

toUpperCase(c) == CASE c = "a" -> "A" [] c = "b" -> "B" [] OTHER -> c

toLowerCase(c) == CASE c = "A" -> "a" [] c = "B" -> "b" [] OTHER -> c

strToLowerCase(s) == [k \in 1..Len(s) |-> toLowerCase(s[k])]

\* index (1-based) of the first occurrence of character c in s, 0 when absent
indexOf(s, c) ==
    IF \E k \in 1..Len(s) : s[k] = c
    THEN CHOOSE k \in 1..Len(s) : s[k] = c /\ \A j \in 1..(k-1) : s[j] # c
    ELSE 0

\* s.replace(c, rep): only the FIRST occurrence of the one-character pattern c
\* is replaced; rep holds no "$" replacement pattern that expands.
replace(s, c, rep) ==
    LET p == indexOf(s, c)
    IN IF p = 0 THEN s
       ELSE SubSeq(s, 1, p - 1) \o rep \o SubSeq(s, p + 1, Len(s))

VARIABLES
    \* --- case converter run (util.js camelToKebab) ---
    cvOrig,     \* the argument of the first application
    cvStr,      \* the local variable `input`
    cvI,        \* the loop index i (1-based here, 0-based in the source)
    cvPc,       \* "loop" | "done" | "RangeError"
    cvOut,      \* the returned string once cvPc = "done"
    cvPass,     \* 1: converting cvOrig, 2: converting the first result again
    cvFirst     \* the result of the first application (pass 2 only)

cvVars == <<cvOrig, cvStr, cvI, cvPc, cvOut, cvPass, cvFirst>>

Strings(n) == UNION {[1..k -> Chars] : k \in 0..n}

\* What a throwing call yields instead of a string (no string of Chars
\* equals it).
RangeError == <<"RangeError">>

\* One iteration of the loop body of camelToKebab at index i: the new value
\* of `input`, or RangeError when the grown string cannot be allocated.
kebabIteration(str, i) ==
    IF toUpperCase(str[i]) = str[i] /\ i > 1
    THEN LET grown == replace(str, str[i], <<"-", toLowerCase(str[i])>>)
         IN IF Len(grown) > MaxStrLen THEN RangeError ELSE grown
    ELSE str

\* for (let i = 0; i < input.length; ++i) { ... }
ConvIterate ==
    /\ cvPc = "loop"
    /\ cvI <= Len(cvStr)
    /\ LET next == kebabIteration(cvStr, cvI)
       IN IF next = RangeError
          THEN /\ cvPc' = "RangeError"
               /\ UNCHANGED <<cvStr, cvI>>
          ELSE /\ cvStr' = next
               /\ cvI' = cvI + 1
               /\ cvPc' = "loop"
    /\ UNCHANGED <<cvOrig, cvOut, cvPass, cvFirst>>

\* return input.toLowerCase();
ConvReturn ==
    /\ cvPc = "loop"
    /\ cvI > Len(cvStr)
    /\ cvOut' = strToLowerCase(cvStr)
    /\ cvPc' = "done"
    /\ UNCHANGED <<cvOrig, cvStr, cvI, cvPass, cvFirst>>

\* The caller applies the converter to its own result.
ConvAgain ==
    /\ cvPc = "done"
    /\ cvPass = 1
    /\ cvPass' = 2
    /\ cvFirst' = cvOut
    /\ cvStr' = cvOut
    /\ cvI' = 1
    /\ cvPc' = "loop"
    /\ cvOut' = <<>>
    /\ UNCHANGED cvOrig

ConvNext == ConvIterate \/ ConvReturn \/ ConvAgain


\* camelCaseToHyphen (the builder variant's copy of the converter), as the
\* function of its argument: the returned string, or RangeError.
RECURSIVE hyphenLoop(_, _)
hyphenLoop(str, i) ==
    IF i > Len(str) THEN strToLowerCase(str)
    ELSE IF toUpperCase(str[i]) = str[i] /\ i > 1
         THEN LET grown == replace(str, str[i], <<"-", toLowerCase(str[i])>>)
              IN IF Len(grown) > MaxStrLen THEN RangeError
                 ELSE hyphenLoop(grown, i + 1)
         ELSE hyphenLoop(str, i + 1)

camelCaseToHyphen(input) == hyphenLoop(input, 1)

\* ------------------------------------------------------------------------
\* ModelBuilder (builder variant)
\* ------------------------------------------------------------------------
VARIABLES
    config,     \* the builder's this.config object (one object, mutated in place)
    types,      \* the classes returned by build(), in order
    lastBuild,  \* record of the most recent build() call
    lastCall    \* the most recent call handed to the transport client

\* JavaScript null where a string is expected, kept apart from every string
\* of Chars.
Null == <<"null">>

\* !x is false exactly for these string-or-null values of x.
Truthy(x) == x # Null /\ x # <<>>

BaseURLs == {<<>>, <<"a", "b">>}
ResourceNames == {<<>>, <<"a">>, <<"a", "B">>, <<"a", "-", "b">>}
Listeners == {"L1"}
InnerSegments == {"i1"}

BoundedSeq(S, n) == UNION {[1..k -> S] : k \in 0..n}

\* constructor() { this.config = {...} }
NewBuilderConfig ==
    [resource |-> Null, baseURL |-> Null,
     requestListeners |-> <<>>, innerResources |-> <<>>]

NoCall ==
    [op |-> "none", verb |-> "none", res |-> <<>>, id |-> -1, inst |-> 0,
     ident |-> -1, heard |-> <<>>]

NoBuild ==
    [outcome |-> "none", prev |-> "none",
     cfgBefore |-> NewBuilderConfig, cfgAfter |-> NewBuilderConfig,
     callBefore |-> NoCall, callAfter |-> NoCall,
     typesBefore |-> 0, typesAfter |-> 0]

addOnRequestListener(listener) ==
    /\ Len(config.requestListeners) < MaxListeners
    /\ config' = [config EXCEPT !.requestListeners = Append(@, listener)]
    /\ UNCHANGED <<types, lastBuild, lastCall>>

setBaseURL(baseURL) ==
    /\ config' = [config EXCEPT !.baseURL = baseURL]
    /\ UNCHANGED <<types, lastBuild, lastCall>>

setResource(resource) ==
    /\ config' = [config EXCEPT !.resource = resource]
    /\ UNCHANGED <<types, lastBuild, lastCall>>

addInnerResource(resource) ==
    /\ Len(config.innerResources) < MaxInner
    /\ config' = [config EXCEPT !.innerResources = Append(@, resource)]
    /\ UNCHANGED <<types, lastBuild, lastCall>>

setInnerResources(resources) ==
    /\ config' = [config EXCEPT !.innerResources = resources]
    /\ UNCHANGED <<types, lastBuild, lastCall>>

\* build() with its two checks in the other order.
buildOutcomeResourceFirst(cfg) ==
    IF ~Truthy(cfg.resource) THEN "NoResourceError"
    ELSE IF ~Truthy(cfg.baseURL) THEN "NoBaseURLError"
    ELSE "ok"

\* The two checks at the head of build(): which error it throws, or "ok".
buildOutcome(cfg) ==
    IF ~Truthy(cfg.baseURL) THEN "NoBaseURLError"
    ELSE IF ~Truthy(cfg.resource) THEN "NoResourceError"
    ELSE "ok"

\* What build() closes over: `const config = this.config` copies the
\* reference, so the class holds the builder's own object, not a copy of it.
\* builtFrom records the content of that object at the moment of build().
builtClass(cfg) == [config |-> "builder.config", builtFrom |-> cfg]

build ==
    LET outcome == buildOutcome(config)
    IN /\ outcome = "ok" => Len(types) < MaxTypes
       /\ types' = IF outcome = "ok" THEN Append(types, builtClass(config))
                   ELSE types
       /\ UNCHANGED <<config, lastCall>>
       /\ lastBuild' = [outcome |-> outcome, prev |-> lastBuild.outcome,
                        cfgBefore |-> config, cfgAfter |-> config',
                        callBefore |-> lastCall, callAfter |-> lastCall',
                        typesBefore |-> Len(types), typesAfter |-> Len(types')]

\* get config() { return config; } of a built class: the object the class
\* closed over, read when asked.
classConfig(t) == IF t.config = "builder.config" THEN config ELSE t.builtFrom

bVars == <<config, types, lastBuild, lastCall>>

BuilderNext ==
    \/ \E l \in Listeners : addOnRequestListener(l)
    \/ \E u \in BaseURLs : setBaseURL(u)
    \/ \E r \in ResourceNames : setResource(r)
    \/ \E r \in InnerSegments : addInnerResource(r)
    \/ \E rs \in BoundedSeq(InnerSegments, MaxInner) : setInnerResources(rs)
    \/ build

\* ------------------------------------------------------------------------
\* Model: instances, transport handles, hydration
\* ------------------------------------------------------------------------
VARIABLES
    variant,    \* which Model of index.js runs: "builder" | "v2"
    statics,    \* v2: the class's static baseURL / modelName
    instances,  \* the Model objects allocated so far
    pending,    \* transport calls awaiting their response
    ret         \* what the most recently completed operation returned

\* this.id === undefined
UndefinedId == -1
Ids == 0..2

\* if (this.id) ...
TruthyId(id) == id # UndefinedId /\ id # 0

\* Keys of the raw objects a server sends; "retrieve" is also a method name.
RawKeys == {"id", "name", "retrieve"}

Obj(ks, f) == [k \in ks |-> f[k]]

\* The raw objects a server sends or a caller passes: without and with an id
\* (0 is a falsy id), with a data field, with a key named like a method.
RawObjects ==
    { Obj({}, [id |-> 0]),
      Obj({"id"}, [id |-> 0]),
      Obj({"id"}, [id |-> 1]),
      Obj({"id", "name"}, [id |-> 2, name |-> 1]),
      Obj({"name"}, [name |-> 2]),
      Obj({"id", "name", "retrieve"}, [id |-> 1, name |-> 1, retrieve |-> 1]) }

EmptyObject == [k \in {} |-> 0]

\* Members of an instance whose value is a function: the prototype's methods
\* and, in the builder variant, the callable resource accessor $resource.
FunctionMembers ==
    {"constructor", "fillIn", "retrieve", "update", "delete", "$resource"}

\* --- the transport client (another-rest-client), as the code uses it -----
\* api[resourceName]: the handle addressing the collection
collectionHandle(resourceName) == [res |-> resourceName, id |-> UndefinedId]

\* handle(id): the handle narrowed to the single-instance path res/id
narrow(handle, id) == [handle EXCEPT !.id = id]

NoHandle == [res |-> <<>>, id |-> UndefinedId]

\* --- instances ------------------------------------------------------------
\* id: this.id; resource: this.$resource (builder variant); data: the own
\* data properties (builder variant) or this._data (v2); hasData: v2's
\* `this._data instanceof Object`.  created, serverId, firstId and escaped are
\* history: whether create() made the object, the id its create() response
\* carried, the first identity it was bound to, whether application code
\* holds a reference to it.
Thrown == [thrown |-> TRUE]

blankInstance(handle) ==
    [thrown |-> FALSE, id |-> UndefinedId, resource |-> handle,
     data |-> EmptyObject, hasData |-> FALSE,
     created |-> FALSE, serverId |-> UndefinedId, firstId |-> UndefinedId,
     escaped |-> FALSE]

\* fillIn with `this[prop] += obj[prop]` in place of the assignment: a value
\* already present is added to instead of replaced.
fillIn1Accumulating(inst, obj) ==
    LET holdsFunction(prop) == prop \in FunctionMembers /\ prop \notin DOMAIN inst.data
        written == {prop \in DOMAIN obj : ~holdsFunction(prop)}
        newId == IF "id" \in written THEN obj["id"] ELSE inst.id
        newData == [prop \in (DOMAIN inst.data \cup (written \ {"id"})) |->
                       IF prop \in written
                       THEN IF prop \in DOMAIN inst.data
                            THEN inst.data[prop] + obj[prop] ELSE obj[prop]
                       ELSE inst.data[prop]]
    IN [inst EXCEPT !.id = newId,
                    !.data = newData,
                    !.resource = IF TruthyId(newId) THEN narrow(@, newId) ELSE @]

\* Builder variant, fillIn(obj) lines 80-93: every property of obj is
\* assigned to this[prop] unless this[prop] currently is a function; then the
\* handle is narrowed when this.id is truthy.  Raw values are numbers, so the
\* `instanceof String` date branch is not taken; the instance defines no
\* beforeFillIn / afterFillIn hook.
fillIn1(inst, obj) ==
    LET holdsFunction(prop) == prop \in FunctionMembers /\ prop \notin DOMAIN inst.data
        written == {prop \in DOMAIN obj : ~holdsFunction(prop)}
        newId == IF "id" \in written THEN obj["id"] ELSE inst.id
        newData == [prop \in (DOMAIN inst.data \cup (written \ {"id"})) |->
                       IF prop \in written THEN obj[prop] ELSE inst.data[prop]]
    IN [inst EXCEPT !.id = newId,
                    !.data = newData,
                    !.resource = IF TruthyId(newId) THEN narrow(@, newId) ELSE @]

\* v2, fillIn(obj) lines 410-417: this._data is created when missing and
\* every own property of obj is stored in it.
fillIn2(inst, obj) ==
    LET base == IF inst.hasData THEN inst.data ELSE EmptyObject
    IN [inst EXCEPT !.hasData = TRUE,
                    !.data = [prop \in (DOMAIN base \cup DOMAIN obj) |->
                                 IF prop \in DOMAIN obj THEN obj[prop]
                                 ELSE base[prop]]]

\* What `instance.fillIn(obj)` evaluates to: the builder variant returns
\* this, v2 has no return statement.
fillInReturnsThis(v) == v = "builder"

\* Arguments of `new Type(arg)`.
NoArg == [kind |-> "none", id |-> UndefinedId, obj |-> EmptyObject]
IdArg(id) == [kind |-> "id", id |-> id, obj |-> EmptyObject]
ObjArg(obj) == [kind |-> "obj", id |-> UndefinedId, obj |-> obj]

\* Builder variant, constructor(arg) lines 52-66.  this.constructor.config
\* and the host's getAPIHost() are resolved to the configuration object the
\* class was built with.  The result is the new instance, or Thrown when
\* camelCaseToHyphen does not return.
construct1(cfg, arg) ==
    LET resourceName == camelCaseToHyphen(cfg.resource)
        fresh == blankInstance(collectionHandle(resourceName))
    IN IF resourceName = RangeError THEN Thrown
       ELSE IF arg.kind = "id"
            THEN [fresh EXCEPT !.id = arg.id, !.resource = narrow(@, arg.id)]
       ELSE IF arg.kind = "obj" THEN fillIn1(fresh, arg.obj)
       ELSE fresh

\* v2, constructor(id) lines 380-382.
construct2(arg) == [blankInstance(NoHandle) EXCEPT !.id = arg.id]

\* v2, static get apiClient() lines 361-370: client[this.modelName].
staticApiClient == collectionHandle(statics.modelName)

\* v2, get apiClient() lines 392-398.
apiClient(inst) ==
    IF TruthyId(inst.id) THEN narrow(staticApiClient, inst.id)
    ELSE staticApiClient

\* --- operations -------------------------------------------------------------
mVars == <<variant, statics, instances, pending, ret>>

Builder == variant = "builder"

\* The configuration a model class reads (builder variant).
theConfig == classConfig(types[1])

fillIn(inst, obj) == IF Builder THEN fillIn1(inst, obj) ELSE fillIn2(inst, obj)

\* new this() / this.newInstance() as the static methods use it
newEmpty == IF Builder THEN construct1(theConfig, NoArg) ELSE construct2(NoArg)

\* The handle an instance's verbs go through: this.$resource, or the
\* apiClient getter evaluated at the moment of the call.
handleOf(inst) == IF Builder THEN inst.resource ELSE apiClient(inst)

\* The listeners the transport's "request" event reaches for one call.
heardBy == IF Builder THEN theConfig.requestListeners ELSE <<"onRequest">>

\* history bookkeeping: remember the first identity an instance is bound to
remember(inst) ==
    IF inst.firstId = UndefinedId THEN [inst EXCEPT !.firstId = inst.id]
    ELSE inst

NoPending ==
    [op |-> "none", inst |-> 0, sent |-> 0, verb |-> "none", id |-> UndefinedId]

NoRet ==
    [op |-> "none", target |-> 0, val |-> <<>>, raw |-> <<>>, snap |-> <<>>,
     sent |-> 0, verb |-> "none", id |-> UndefinedId,
     again |-> FALSE, error |-> "none"]

\* The value an operation hands back.  val[k] tells whether the k-th returned
\* value is the instance ("instance") or undefined; snap[k] is the state of
\* the instance hydrated from raw[k] at that moment; call is the pending
\* transport call the operation awaited (NoPending for a synchronous one):
\* sent counts the calls it made, verb and id are the call's verb and the
\* identity in its path.
returned(op, target, val, raw, snap, call) ==
    [op |-> op, target |-> target, val |-> val, raw |-> raw, snap |-> snap,
     sent |-> call.sent, verb |-> call.verb, id |-> call.id,
     again |-> /\ ret.error = "none"
               /\ ret.op \in {"fillIn", "retrieve", "update"}
               /\ op \in {"fillIn", "retrieve", "update"}
               /\ ret.target = target
               /\ ret.raw = raw,
     error |-> "none"]

failed(op, error) == [NoRet EXCEPT !.op = op, !.error = error]

fillInResult == IF fillInReturnsThis(variant) THEN "instance" ELSE "undefined"

\* A verb called on a handle: one call handed to the transport client, whose
\* response is awaited.
issue(op, verb, handle, i, ident) ==
    /\ Len(pending) < MaxPending
    /\ lastCall' = [op |-> op, verb |-> verb, res |-> handle.res,
                    id |-> handle.id, inst |-> i, ident |-> ident,
                    heard |-> heardBy]
    /\ pending' = Append(pending, [op |-> op, inst |-> i, sent |-> 1,
                                   verb |-> verb, id |-> handle.id])

without(q, p) == SubSeq(q, 1, p - 1) \o SubSeq(q, p + 1, Len(q))

\* new Type(arg) in application code
New(arg) ==
    /\ Len(instances) < MaxInstances
    /\ Builder \/ arg.kind # "obj"
    /\ LET made == IF Builder THEN construct1(theConfig, arg) ELSE construct2(arg)
       IN IF made.thrown
          THEN /\ ret' = failed("new", "RangeError")
               /\ UNCHANGED instances
          ELSE /\ instances' = Append(instances,
                                  remember([made EXCEPT !.escaped = TRUE]))
               /\ ret' = returned("new", Len(instances) + 1, <<"instance">>,
                                  <<>>, <<remember(made)>>, NoPending)
    /\ UNCHANGED <<variant, statics, pending, bVars>>

\* instance.fillIn(obj) in application code
FillIn(i, obj) ==
    /\ instances[i].escaped
    /\ LET filled == remember(fillIn(instances[i], obj))
       IN /\ instances' = [instances EXCEPT ![i] = filled]
          /\ ret' = returned("fillIn", i, <<fillInResult>>, <<obj>>,
                             <<filled>>, NoPending)
    /\ UNCHANGED <<variant, statics, pending, bVars>>

\* instance.retrieve(), up to the await
Retrieve(i) ==
    /\ instances[i].escaped
    /\ issue("retrieve", "GET", handleOf(instances[i]), i, instances[i].id)
    /\ UNCHANGED <<variant, statics, instances, ret, config, types, lastBuild>>

\* instance.update(data), up to the await
Update(i) ==
    /\ instances[i].escaped
    /\ issue("update", "PATCH", handleOf(instances[i]), i, instances[i].id)
    /\ UNCHANGED <<variant, statics, instances, ret, config, types, lastBuild>>

\* instance.delete()
Delete(i) ==
    /\ instances[i].escaped
    /\ issue("delete", "DELETE", handleOf(instances[i]), i, instances[i].id)
    /\ UNCHANGED <<variant, statics, instances, ret, config, types, lastBuild>>

\* Type.create(data), up to the await
Create ==
    LET made == newEmpty
    IN IF made.thrown
       THEN /\ ret' = failed("create", "RangeError")
            /\ UNCHANGED <<variant, statics, instances, pending, bVars>>
       ELSE /\ Len(instances) < MaxInstances
            /\ instances' = Append(instances, made)
            /\ issue("create", "POST", handleOf(made), Len(instances) + 1,
                     made.id)
            /\ UNCHANGED <<variant, statics, ret, config, types, lastBuild>>

\* Type.list(args), up to the await.  The builder variant reads the handle of
\* a throw-away instance, v2 the class's own client.
List ==
    LET made == newEmpty
    IN IF made.thrown
       THEN /\ ret' = failed("list", "RangeError")
            /\ UNCHANGED <<variant, statics, instances, pending, bVars>>
       ELSE /\ issue("list", "GET",
                     IF Builder THEN made.resource ELSE staticApiClient,
                     0, UndefinedId)
            /\ UNCHANGED <<variant, statics, instances, ret, config, types,
                           lastBuild>>

\* The response to a retrieve / update / create arrives: the instance is
\* hydrated with it and the result of fillIn is returned.
ResolveOne(p, obj) ==
    /\ p \in 1..Len(pending)
    /\ pending[p].op \in {"retrieve", "update", "create"}
    /\ LET i == pending[p].inst
           op == pending[p].op
           hydrated == remember(fillIn(instances[i], obj))
           filled == IF op = "create"
                     THEN [hydrated EXCEPT
                              !.escaped = fillInReturnsThis(variant),
                              !.created = TRUE,
                              !.serverId = IF "id" \in DOMAIN obj
                                           THEN obj["id"] ELSE UndefinedId]
                     ELSE hydrated
       IN /\ instances' = [instances EXCEPT ![i] = filled]
          /\ ret' = returned(op, i, <<fillInResult>>, <<obj>>, <<filled>>,
                             pending[p])
    /\ pending' = without(pending, p)
    /\ UNCHANGED <<variant, statics, bVars>>

\* The response to a delete arrives: the transport's result is passed on.
ResolveDelete(p) ==
    /\ p \in 1..Len(pending)
    /\ pending[p].op = "delete"
    /\ ret' = returned("delete", pending[p].inst, <<>>, <<>>, <<>>,
                       pending[p])
    /\ pending' = without(pending, p)
    /\ UNCHANGED <<variant, statics, instances, bVars>>

\* The response to a list arrives: one new instance per element, hydrated
\* from it.  The builder variant pushes the instance; v2 maps each element to
\* the result of fillIn.  The objects of the result live in ret.
ResolveList(p, list) ==
    /\ p \in 1..Len(pending)
    /\ pending[p].op = "list"
    /\ ret' = returned("list", 0,
                       [k \in 1..Len(list) |-> fillInResult], list,
                       [k \in 1..Len(list) |->
                           [remember(fillIn(newEmpty, list[k])) EXCEPT
                               !.escaped = fillInReturnsThis(variant)]],
                       pending[p])
    /\ pending' = without(pending, p)
    /\ UNCHANGED <<variant, statics, instances, bVars>>

\* The transport rejects: the error reaches the caller, nothing is hydrated.
Reject(p) ==
    /\ p \in 1..Len(pending)
    /\ ret' = failed(pending[p].op, "transport")
    /\ pending' = without(pending, p)
    /\ UNCHANGED <<variant, statics, instances, bVars>>

ValidConfigs ==
    { [resource |-> r, baseURL |-> u, requestListeners |-> ls,
       innerResources |-> rs] :
        r \in {x \in ResourceNames : Truthy(x)},
        u \in {x \in BaseURLs : Truthy(x)},
        ls \in BoundedSeq(Listeners, MaxListeners),
        rs \in {<<>>} }

ModelNext ==
    \/ \E id \in Ids : New(IdArg(id))
    \/ New(NoArg)
    \/ \E obj \in RawObjects : New(ObjArg(obj))
    \/ \E i \in 1..Len(instances), obj \in RawObjects : FillIn(i, obj)
    \/ \E i \in 1..Len(instances) : Retrieve(i)
    \/ \E i \in 1..Len(instances) : Update(i)
    \/ \E i \in 1..Len(instances) : Delete(i)
    \/ Create
    \/ List
    \/ \E p \in 1..Len(pending), obj \in RawObjects : ResolveOne(p, obj)
    \/ \E p \in 1..Len(pending) : ResolveDelete(p)
    \/ \E p \in 1..Len(pending), list \in BoundedSeq(RawObjects, MaxListLen) :
           ResolveList(p, list)
    \/ \E p \in 1..Len(pending) : Reject(p)

vars == <<cvVars, bVars, mVars>>

\* One entity type is configured: through the builder's chain
\* setBaseURL(..).setResource(..).build() (builder variant), or through the
\* statics of the class (v2).  No converter run is under observation.
ModelInit ==
    /\ variant \in {"builder", "v2"}
    /\ IF variant = "builder"
       THEN /\ config \in ValidConfigs
            /\ statics = [baseURL |-> Null, modelName |-> Null]
       ELSE /\ config = NewBuilderConfig
            /\ statics \in [baseURL : {<<"a", "b">>}, modelName : {<<"a">>}]
    /\ types = IF variant = "builder" THEN <<builtClass(config)>> ELSE <<>>
    /\ lastBuild = IF variant = "builder"
                   THEN [NoBuild EXCEPT !.outcome = "ok", !.cfgBefore = config,
                                        !.cfgAfter = config, !.typesAfter = 1]
                   ELSE NoBuild
    /\ lastCall = NoCall
    /\ instances = <<>>
    /\ pending = <<>>
    /\ ret = NoRet
    /\ cvOrig = <<>> /\ cvStr = <<>> /\ cvI = 1 /\ cvPc = "idle"
    /\ cvOut = <<>> /\ cvPass = 1 /\ cvFirst = <<>>

\* A fresh builder: new ModelBuilder().  No class is built, no instance made.
BuilderInit ==
    /\ config = NewBuilderConfig
    /\ types = <<>>
    /\ lastBuild = NoBuild
    /\ lastCall = NoCall
    /\ variant = "builder"
    /\ statics = [baseURL |-> Null, modelName |-> Null]
    /\ instances = <<>>
    /\ pending = <<>>
    /\ ret = NoRet
    /\ cvOrig = <<>> /\ cvStr = <<>> /\ cvI = 1 /\ cvPc = "idle"
    /\ cvOut = <<>> /\ cvPass = 1 /\ cvFirst = <<>>

\* camelToKebab(input) is entered with some string.
ConvInit ==
    /\ cvOrig \in Strings(MaxInputLen)
    /\ cvStr = cvOrig
    /\ cvI = 1
    /\ cvPc = "loop"
    /\ cvOut = <<>>
    /\ cvPass = 1
    /\ cvFirst = <<>>
    /\ config = NewBuilderConfig
    /\ types = <<>>
    /\ lastBuild = NoBuild
    /\ lastCall = NoCall
    /\ variant = "v2"
    /\ statics = [baseURL |-> Null, modelName |-> Null]
    /\ instances = <<>>
    /\ pending = <<>>
    /\ ret = NoRet

SpecModel == ModelInit /\ [][ModelNext /\ UNCHANGED cvVars]_vars

\* Hydration on its own: objects are constructed and filled in directly.
HydrateNext ==
    \/ \E id \in Ids : New(IdArg(id))
    \/ New(NoArg)
    \/ \E obj \in RawObjects : New(ObjArg(obj))
    \/ \E i \in 1..Len(instances), obj \in RawObjects : FillIn(i, obj)

SpecHydrate == ModelInit /\ [][HydrateNext /\ UNCHANGED cvVars]_vars

SpecConv == ConvInit /\ [][ConvNext /\ UNCHANGED <<bVars, mVars>>]_vars

SpecBuilder == BuilderInit /\ [][BuilderNext /\ UNCHANGED <<cvVars, mVars>>]_vars

\* ------------------------------------------------------------------------
\* Claims about the case converter
\* ------------------------------------------------------------------------
IsLetter(c) == c \in {"a", "b", "A", "B"}
IsIdentStart(c) == IsLetter(c) \/ c \in {"_", "$"}
IsIdentPart(c) == IsIdentStart(c) \/ c = "1"
ValidIdentifier(s) ==
    /\ Len(s) > 0
    /\ IsIdentStart(s[1])
    /\ \A k \in 2..Len(s) : IsIdentPart(s[k])

\* C6: the case converter is total: whatever the input string (empty, with
\* hyphens, with digits, "_" or "$" past the first character), the call never
\* ends in an exception instead of a returned string, and the empty string is
\* returned as the empty string.
C6_ConverterTotal ==
    /\ cvPc # "RangeError"
    /\ (cvPass = 1 /\ cvPc = "done" /\ cvOrig = <<>>) => cvOut = <<>>

\* C7: for every valid identifier s, converting the converted string again
\* returns the same string as the first conversion.
C7_ConverterIdempotent ==
    (ValidIdentifier(cvOrig) /\ cvPass = 2 /\ cvPc \in {"done", "RangeError"})
        => (cvPc = "done" /\ cvOut = cvFirst)

\* ------------------------------------------------------------------------
\* Claims about the builder
\* ------------------------------------------------------------------------
BuildFailed(b) == b.outcome \in {"NoBaseURLError", "NoResourceError"}

\* C1: build() throws NoBaseURLError when no base address is set, throws
\* NoResourceError when a base address is set but no resource, and returns a
\* new class exactly when both are set; a build() that throws hands nothing to
\* the transport client and leaves the builder's configuration as it was, so
\* the missing field can be set and build() called again.
C1_BuildContract ==
    lastBuild.outcome # "none" =>
        LET c == lastBuild.cfgBefore
        IN /\ ~Truthy(c.baseURL) => lastBuild.outcome = "NoBaseURLError"
           /\ (Truthy(c.baseURL) /\ ~Truthy(c.resource))
                  => lastBuild.outcome = "NoResourceError"
           /\ (Truthy(c.baseURL) /\ Truthy(c.resource))
                  <=> lastBuild.outcome = "ok"
           /\ lastBuild.typesAfter =
                  lastBuild.typesBefore + (IF lastBuild.outcome = "ok" THEN 1 ELSE 0)
           /\ BuildFailed(lastBuild) =>
                  /\ lastBuild.callAfter = lastBuild.callBefore
                  /\ lastBuild.cfgAfter = lastBuild.cfgBefore

\* A build() that succeeded right after one that threw for a missing resource.
C1_Witness ==
    /\ lastBuild.outcome = "ok"
    /\ lastBuild.prev = "NoResourceError"
    /\ Len(types) = 1

\* C2: the configuration a built class sees is the one the builder had at the
\* moment of build(), whatever setters are called on the builder afterwards.
C2_BuiltConfigIsSnapshot ==
    \A t \in 1..Len(types) : classConfig(types[t]) = types[t].builtFrom

\* ------------------------------------------------------------------------
\* Claims about instances
\* ------------------------------------------------------------------------
InstanceOps == {"retrieve", "update", "delete"}
Hydrations == {"fillIn", "retrieve", "update", "create", "list"}

\* The data bag of an instance: its own data properties together with id
\* (builder variant), or this._data (v2).
dataBag(inst) ==
    IF Builder /\ inst.id # UndefinedId
    THEN [k \in DOMAIN inst.data \cup {"id"} |->
             IF k = "id" THEN inst.id ELSE inst.data[k]]
    ELSE inst.data

\* The path segment the configured resource name stands for.
resourcePath ==
    IF Builder THEN camelCaseToHyphen(theConfig.resource) ELSE statics.modelName

\* C3: retrieve, update and delete on an instance without identity hand no
\* call to the transport client: every GET / PATCH / DELETE they issue comes
\* from an instance that carries an identity and goes to a singular path.
C3_NoCallWithoutIdentity ==
    lastCall.op \in InstanceOps =>
        /\ lastCall.ident # UndefinedId
        /\ lastCall.id # UndefinedId

\* C4: list() makes exactly one call, a GET on the collection, and returns
\* one new instance per element of the response, in order, the k-th carrying
\* the k-th element's id as identity and its fields in the data bag.
C4_ListReturnsHydratedInstances ==
    (ret.op = "list" /\ ret.error = "none") =>
        /\ ret.sent = 1 /\ ret.verb = "GET" /\ ret.id = UndefinedId
        /\ Len(ret.val) = Len(ret.raw)
        /\ \A k \in 1..Len(ret.raw) :
              /\ ret.val[k] = "instance"
              /\ "id" \in DOMAIN ret.raw[k] => ret.snap[k].id = ret.raw[k]["id"]
              /\ \A key \in DOMAIN ret.raw[k] \ FunctionMembers :
                    /\ key \in DOMAIN dataBag(ret.snap[k])
                    /\ dataBag(ret.snap[k])[key] = ret.raw[k][key]

\* C5: create() whose response carries the id k returns the new instance with
\* identity k, and every retrieve / update / delete later called on that
\* instance goes to the singular path resourceName/k.
C5_CreateBindsSingularHandle ==
    /\ (ret.op = "create" /\ ret.error = "none" /\ "id" \in DOMAIN ret.raw[1]) =>
          /\ ret.val[1] = "instance"
          /\ ret.snap[1].id = ret.raw[1]["id"]
    /\ (/\ lastCall.op \in InstanceOps
        /\ instances[lastCall.inst].created
        /\ instances[lastCall.inst].serverId # UndefinedId) =>
          /\ lastCall.res = resourcePath
          /\ lastCall.id = instances[lastCall.inst].serverId

C9_FillInIdempotent ==
    \A i \in 1..Len(instances) : \A obj \in RawObjects :
        LET once == fillIn(instances[i], obj)
            twice == fillIn(once, obj)
        IN dataBag(twice) = dataBag(once)

\* An instance that was hydrated twice in a row with the same non-empty raw
\* object, on top of data it already held.
C9_Witness ==
    /\ ret.op = "fillIn"
    /\ ret.again
    /\ ret.raw[1] # EmptyObject
    /\ dataBag(instances[ret.target]) = dataBag(ret.snap[1])
    /\ \E key \in DOMAIN dataBag(instances[ret.target]) :
           key \notin DOMAIN ret.raw[1]

\* C10: hydration never shadows a behaviour: no key named like a function
\* member of the instance is ever written by fillIn, and every other key of
\* the raw object is copied into the instance's data.
C10_HydrationNeverShadows ==
    /\ \A i \in 1..Len(instances) :
          \A m \in FunctionMembers : m \notin DOMAIN instances[i].data
    /\ (ret.op \in Hydrations /\ ret.error = "none") =>
          \A k \in 1..Len(ret.raw) :
              /\ \A m \in FunctionMembers : m \notin DOMAIN ret.snap[k].data
              /\ \A key \in DOMAIN ret.raw[k] \ FunctionMembers :
                    /\ key \in DOMAIN dataBag(ret.snap[k])
                    /\ dataBag(ret.snap[k])[key] = ret.raw[k][key]

====
